---- MODULE Spec2Model ----
(***************************************************************************)
(* Model of tracing-s3: the Output buffer, the ingestion task, the cron    *)
(* job, send_logs and S3Helpers::append_to_file.                           *)
(*                                                                         *)
(* Strings are modelled as sequences of tokens.  A serialized record is    *)
(* one token (the positive id of the value it was serialized from) whose   *)
(* byte length is SerLen(id); the newline separator is the token NL of     *)
(* byte length 1.                                                          *)
(***************************************************************************)
EXTENDS Integers, Sequences, FiniteSets, TLC

\* ---------------------------------------------------------------- bounds
MaxRecords == 2          \* values the producer sends in one run
MaxDay == 2              \* calendar days the run spans
RecordBytes == 614400    \* byte length unit of a serialized record

\* ------------------------------------------------------ program constants
KB == 1024               \* the literal 1_024 of cron_job and send_logs
NL == 0                  \* the "\n" separator of flush_buffer

Prefix == "prefix"
Postfix == "log"
Nonce == "nonce"

BufferLimitsKb == {1, 2000}
ObjectLimitsMb == {1}

Ids == 1..MaxRecords
Days == 1..MaxDay

VARIABLES
  config,          \* TracingS3Config: buffer_size_limit_kb, object_size_limit_mb
  today,           \* Local::now().date_naive()
  sent,            \* number of values the producer has sent on event_tx
  chan,            \* the unbounded event channel (event_tx -> event_rx)
  ing_pc,          \* position of the ingestion task
  ing_cur,         \* serialized record the ingestion task is appending
  ing_prev,        \* local size_in_kb of append_to_buffer (fetch_add result)
  buffer,          \* Output.buffer
  size_in_bytes,   \* Output.size_in_bytes
  part,            \* Output.part
  name,            \* Output.name
  outer_readers,   \* tasks holding a read guard of Arc<RwLock<Output>>
  inner_writer,    \* task holding the write guard of Output.buffer
  cron_pc,         \* position of the cron job
  send_pc,         \* position of the send_logs the cron job awaits
  cron_len,        \* local buffer_len of cron_job
  cron_size,       \* local size_in_bytes of cron_job
  decision,        \* history: what the last evaluation of cron_job's if chose
  payload,         \* local payload of send_logs
  key,             \* local name of send_logs
  head_result,     \* outcome of head_object in get_file_size
  offset,          \* local offset of append_to_file
  total_size,      \* local total_size of send_logs
  s3,              \* the bucket: key -> object content
  flushes,         \* history: one entry per send_logs that read its name
  appended,        \* history: ids pushed on the buffer so far
  since_clear,     \* history: records pushed since the last clear
  drain_input,     \* history: records pushed before the current drain's clear
  drain_clean,     \* history: no append step ran during the current drain
  sent_ok,         \* history: ids of the sent values that serialize
  cfg_in,          \* the numbers handed to the constructors of config/types.rs
  cfg_out          \* what those constructors returned

vars == <<config, today, sent, chan, ing_pc, ing_cur, ing_prev, buffer,
          size_in_bytes, part, name, outer_readers, inner_writer, cron_pc,
          cron_len, cron_size, decision, payload, key, head_result, offset,
          total_size, s3, flushes, appended, since_clear, drain_input,
          drain_clean, send_pc, sent_ok, cfg_in, cfg_out>>

\* ------------------------------------------------------------ pure parts

\* byte length of the serialization of value id: odd ids are long records
SerLen(id) == RecordBytes * (1 + (id % 2))

\* str::len of a token string
RECURSIVE ByteLen(_)
ByteLen(s) ==
  IF s = <<>> THEN 0
  ELSE (IF Head(s) = NL THEN 1 ELSE SerLen(Head(s))) + ByteLen(Tail(s))

\* the record ids a token string holds
RecordsOf(s) == {s[i] : i \in DOMAIN s} \ {NL}

\* a name that leaves the part index at 0
GenNamePartZero(day, p) ==
  [day |-> day, part |-> 0, prefix |-> Prefix, nonce |-> Nonce, postfix |-> Postfix]

\* Output::gen_name: "{today}/{part}/{prefix}-{nonce}.{postfix}"
GenName(day, p) ==
  [day |-> day, part |-> p, prefix |-> Prefix, nonce |-> Nonce, postfix |-> Postfix]

\* a join that ends every record with the separator
JoinTrailingNewline(q) == [i \in 1..(2 * Len(q)) |-> IF i % 2 = 1 THEN q[(i + 1) \div 2] ELSE NL]

\* Vec<String>::join("\n")
RECURSIVE JoinNewline(_)
JoinNewline(q) ==
  IF q = <<>> THEN <<>>
  ELSE IF Len(q) = 1 THEN <<q[1]>>
  ELSE <<q[1], NL>> \o JoinNewline(Tail(q))

\* an insert at the head
PushFront(q, v) == <<v>> \o q

\* Vec::push
Push(q, v) == Append(q, v)

\* a clear that leaves the queue as it is
ClearKeeps(q) == q

\* Vec::clear
Clear(q) == <<>>

\* the part taken from fetch_add's return value, the value before the add
NextPartStale(p) == p

\* part.fetch_add(1) of bump_part
NextPart(p) == p + 1

\* a flush condition that looks at the length only
FlushDueLenOnly(len, size, limit_kb) == len > 0

\* the flush condition of cron_job
FlushDue(len, size, limit_kb) == len > 0 \/ size * KB >= limit_kb

\* the rollover condition of send_logs
NeedsRollover(total, cfg) == total > cfg.buffer_size_limit_kb * KB

\* a probe that answers size 1 for whatever it could not read
ProbeOffsetOne(result, object_size) == IF result = "ok" THEN object_size ELSE 1

\* get_file_size(..).await.unwrap_or(0)
ProbeOffset(result, object_size) == IF result = "ok" THEN object_size ELSE 0

\* a total that leaves the offset out
TotalLenPayloadOnly(off, content) == ByteLen(content)

\* append_to_file: offset as u64 + content_to_append.len() as u64
TotalLen(off, content) == off + ByteLen(content)

\* a name that is generated anew at every read
CurrentNameFresh(n, day, p) == GenName(day, p)

\* Output::name: self.name.clone(); today and part are not looked at
CurrentName(n, day, p) == n

\* a drain that keeps the write guard of the Vec after the clear
GuardAfterClearHeld == "cron"

\* flush_buffer: self.buffer.write().await.clear(); the write guard is a
\* temporary that is dropped at the end of the statement
GuardAfterClear == "none"

\* a cron job that starts send_logs and goes on without waiting for it
CronCallsDetached == "sleep"

\* cron_job: HttpLogLayer::send_logs(..).await; the loop stands still until
\* send_logs has returned
CronCalls == "await"

\* a cron job that ends when send_logs fails
AfterSendLogsStops(result) == IF result = "err" THEN "stopped" ELSE "sleep"

\* cron_job: let _ = send_logs(..).await; the loop goes on to sleep again
AfterSendLogs(result) == "sleep"

\* a serializer that never fails
SerdeToStringAlways(value) == [ok |-> TRUE, v |-> value.id]

\* serde_json::to_string(&value)
SerdeToString(value) ==
  IF value.ok THEN [ok |-> TRUE, v |-> value.id] ELSE [ok |-> FALSE, v |-> 0]

ObjectSize(k) == IF k \in DOMAIN s3 THEN ByteLen(s3[k]) ELSE 0

NoKey == GenName(0, 0)

\* no constructor of config/types.rs has been called
NoInput == [kb |-> 0, mb |-> 0, ms |-> 0]
NoResult == [called |-> FALSE, ok |-> FALSE, inner |-> 0]
NoOutput == [kb |-> NoResult, mb |-> NoResult, ms |-> NoResult,
             built |-> FALSE, spawned |-> FALSE]

\* ------------------------------------------------------------------ Init
\* Output::new and the channels, tasks and locals of HttpLogLayer::new
InitLayer ==
  /\ today = 1
  /\ sent = 0
  /\ chan = <<>>
  /\ ing_pc = "recv"
  /\ ing_cur = 0
  /\ ing_prev = 0
  /\ buffer = <<>>
  /\ size_in_bytes = 0
  /\ part = 0
  /\ name = GenName(1, 0)
  /\ outer_readers = {}
  /\ inner_writer = "none"
  /\ cron_pc = "sleep"
  /\ send_pc = "idle"
  /\ cron_len = 0
  /\ cron_size = 0
  /\ decision = "none"
  /\ payload = <<>>
  /\ key = NoKey
  /\ head_result = "none"
  /\ offset = 0
  /\ total_size = 0
  /\ s3 = [k \in {} |-> <<>>]
  /\ flushes = <<>>
  /\ appended = {}
  /\ since_clear = <<>>
  /\ drain_input = <<>>
  /\ drain_clean = FALSE
  /\ sent_ok = {}
  /\ cfg_in = NoInput
  /\ cfg_out = NoOutput

\* a layer built from a configuration the constructors accept
Init ==
  /\ config \in [buffer_size_limit_kb : BufferLimitsKb,
                 object_size_limit_mb : ObjectLimitsMb]
  /\ InitLayer

\* --------------------------------------------------------- environment

\* what no step of the layer writes after construction
auxVars == <<sent_ok, cfg_in, cfg_out>>

\* on_event: event_tx.send(log)
Produce ==
  /\ sent < MaxRecords
  /\ \E ok \in BOOLEAN :
       /\ chan' = Append(chan, [id |-> sent + 1, ok |-> ok])
       /\ sent_ok' = IF ok THEN sent_ok \cup {sent + 1} ELSE sent_ok
  /\ sent' = sent + 1
  /\ UNCHANGED <<config, today, ing_pc, ing_cur, ing_prev, buffer,
                 size_in_bytes, part, name, outer_readers, inner_writer,
                 cron_pc, send_pc, cron_len, cron_size, decision, payload, key,
                 head_result,
                 offset, total_size, s3, flushes, appended, since_clear,
                 drain_input, drain_clean>>
  /\ UNCHANGED <<cfg_in, cfg_out>>

\* the wall-clock date advances
Midnight ==
  /\ today < MaxDay
  /\ today' = today + 1
  /\ UNCHANGED <<config, sent, chan, ing_pc, ing_cur, ing_prev, buffer,
                 size_in_bytes, part, name, outer_readers, inner_writer,
                 cron_pc, send_pc, cron_len, cron_size, decision, payload, key,
                 head_result,
                 offset, total_size, s3, flushes, appended, since_clear,
                 drain_input, drain_clean>>
  /\ UNCHANGED auxVars

\* ------------------------------------------------------ ingestion task
cronVars == <<cron_pc, send_pc, cron_len, cron_size, decision, payload, key,
              head_result, offset, total_size, s3, flushes>>

\* flush_buffer has joined and send_logs has not yet gone on
Draining == send_pc \in {"clear", "reset", "name"}

\* event_rx.recv() and serde_json::to_string: a value that fails to
\* serialize is dropped, the loop goes on
IngestRecv ==
  /\ ing_pc = "recv"
  /\ chan # <<>>
  /\ LET r == SerdeToString(Head(chan))
     IN  IF r.ok
         THEN ing_pc' = "lock" /\ ing_cur' = r.v
         ELSE ing_pc' = "recv" /\ ing_cur' = ing_cur
  /\ chan' = Tail(chan)
  /\ UNCHANGED <<config, today, sent, ing_prev, buffer, size_in_bytes, part,
                 name, outer_readers, inner_writer, appended, since_clear,
                 drain_input, drain_clean>>
  /\ UNCHANGED cronVars
  /\ UNCHANGED auxVars

\* output_clone.read().await: a writer that waits blocks new readers
IngestLock ==
  /\ ing_pc = "lock"
  /\ send_pc # "bump"
  /\ outer_readers' = outer_readers \cup {"ingest"}
  /\ ing_pc' = "fetch_add"
  /\ UNCHANGED <<config, today, sent, chan, ing_cur, ing_prev, buffer,
                 size_in_bytes, part, name, inner_writer, appended,
                 since_clear, drain_input, drain_clean>>
  /\ UNCHANGED cronVars
  /\ UNCHANGED auxVars

\* append_to_buffer: size_in_bytes.fetch_add(value.len())
IngestFetchAdd ==
  /\ ing_pc = "fetch_add"
  /\ ing_prev' = size_in_bytes
  /\ size_in_bytes' = size_in_bytes + SerLen(ing_cur)
  /\ ing_pc' = "push"
  /\ drain_clean' = (drain_clean /\ ~Draining)
  /\ UNCHANGED <<config, today, sent, chan, ing_cur, buffer, part, name,
                 outer_readers, inner_writer, appended, since_clear,
                 drain_input>>
  /\ UNCHANGED cronVars
  /\ UNCHANGED auxVars

\* append_to_buffer: self.buffer.write().await, then push
IngestPush ==
  /\ ing_pc = "push"
  /\ inner_writer = "none"
  /\ inner_writer' = "ingest"
  /\ buffer' = Push(buffer, ing_cur)
  /\ appended' = appended \cup {ing_cur}
  /\ since_clear' = Append(since_clear, ing_cur)
  /\ ing_pc' = "store"
  /\ drain_clean' = (drain_clean /\ ~Draining)
  /\ UNCHANGED <<config, today, sent, chan, ing_cur, ing_prev, size_in_bytes,
                 part, name, outer_readers, drain_input>>
  /\ UNCHANGED cronVars
  /\ UNCHANGED auxVars

\* append_to_buffer: update_size_in_bytes(size_in_kb), then both guards drop
IngestStore ==
  /\ ing_pc = "store"
  /\ size_in_bytes' = ing_prev
  /\ inner_writer' = "none"
  /\ outer_readers' = outer_readers \ {"ingest"}
  /\ ing_pc' = "recv"
  /\ ing_cur' = 0
  /\ ing_prev' = 0
  /\ drain_clean' = (drain_clean /\ ~Draining)
  /\ UNCHANGED <<config, today, sent, chan, buffer, part, name, appended,
                 since_clear, drain_input>>
  /\ UNCHANGED cronVars
  /\ UNCHANGED auxVars

\* ------------------------------------------------------------ cron job
envVars == <<config, today, sent, chan>>
ingVars == <<ing_pc, ing_cur, ing_prev>>
histVars == <<appended, since_clear, drain_input, drain_clean>>

\* cron_job: tokio::time::sleep(cron_interval_in_ms) returns
CronWake ==
  /\ cron_pc = "sleep"
  /\ cron_pc' = "len"
  /\ decision' = "none"
  /\ UNCHANGED <<cron_len, cron_size, payload, key, head_result, offset,
                 total_size, s3, flushes>>
  /\ UNCHANGED <<buffer, size_in_bytes, part, name, outer_readers, inner_writer>>
  /\ UNCHANGED send_pc
  /\ UNCHANGED envVars /\ UNCHANGED ingVars /\ UNCHANGED histVars
  /\ UNCHANGED auxVars

\* cron_job: output.read().await.buffer_len().await
CronReadLen ==
  /\ cron_pc = "len"
  /\ inner_writer = "none"
  /\ cron_len' = Len(buffer)
  /\ cron_pc' = "size"
  /\ UNCHANGED <<cron_size, decision, payload, key, head_result, offset,
                 total_size, s3, flushes>>
  /\ UNCHANGED <<buffer, size_in_bytes, part, name, outer_readers, inner_writer>>
  /\ UNCHANGED send_pc
  /\ UNCHANGED envVars /\ UNCHANGED ingVars /\ UNCHANGED histVars
  /\ UNCHANGED auxVars

\* cron_job: output.read().await.size_in_bytes()
CronReadSize ==
  /\ cron_pc = "size"
  /\ cron_size' = size_in_bytes
  /\ cron_pc' = "decide"
  /\ UNCHANGED <<cron_len, decision, payload, key, head_result, offset,
                 total_size, s3, flushes>>
  /\ UNCHANGED <<buffer, size_in_bytes, part, name, outer_readers, inner_writer>>
  /\ UNCHANGED send_pc
  /\ UNCHANGED envVars /\ UNCHANGED ingVars /\ UNCHANGED histVars
  /\ UNCHANGED auxVars

\* cron_job: the if that guards send_logs
CronDecide ==
  /\ cron_pc = "decide"
  /\ IF FlushDue(cron_len, cron_size, config.buffer_size_limit_kb)
     THEN cron_pc' = CronCalls /\ send_pc' = "join" /\ decision' = "flush"
     ELSE cron_pc' = "sleep" /\ send_pc' = send_pc /\ decision' = "skip"
  /\ cron_len' = 0
  /\ cron_size' = 0
  /\ UNCHANGED <<payload, key, head_result, offset, total_size, s3, flushes>>
  /\ UNCHANGED <<buffer, size_in_bytes, part, name, outer_readers, inner_writer>>
  /\ UNCHANGED envVars /\ UNCHANGED ingVars /\ UNCHANGED histVars
  /\ UNCHANGED auxVars

\* flush_buffer: self.buffer.read().await.join("\n")
FlushJoin ==
  /\ send_pc = "join"
  /\ inner_writer = "none"
  /\ payload' = JoinNewline(buffer)
  /\ drain_clean' = (ing_pc \notin {"push", "store"})
  /\ send_pc' = "clear"
  /\ UNCHANGED <<cron_pc, cron_len, cron_size, decision, key, head_result, offset,
                 total_size, s3, flushes>>
  /\ UNCHANGED <<buffer, size_in_bytes, part, name, outer_readers, inner_writer>>
  /\ UNCHANGED envVars /\ UNCHANGED ingVars
  /\ UNCHANGED <<appended, since_clear, drain_input>>
  /\ UNCHANGED auxVars

\* flush_buffer: self.buffer.write().await.clear()
FlushClear ==
  /\ send_pc = "clear"
  /\ inner_writer = "none"
  /\ buffer' = Clear(buffer)
  /\ drain_input' = since_clear
  /\ since_clear' = <<>>
  /\ send_pc' = "reset"
  /\ UNCHANGED <<cron_pc, cron_len, cron_size, decision, payload, key, head_result,
                 offset, total_size, s3, flushes>>
  /\ inner_writer' = GuardAfterClear
  /\ UNCHANGED <<size_in_bytes, part, name, outer_readers>>
  /\ UNCHANGED envVars /\ UNCHANGED ingVars
  /\ UNCHANGED <<appended, drain_clean>>
  /\ UNCHANGED auxVars

\* flush_buffer: self.update_size_in_bytes(0), then return payload
FlushReset ==
  /\ send_pc = "reset"
  /\ size_in_bytes' = 0
  /\ send_pc' = "name"
  /\ UNCHANGED <<cron_pc, cron_len, cron_size, decision, payload, key, head_result,
                 offset, total_size, s3, flushes>>
  /\ UNCHANGED <<buffer, part, name, outer_readers, inner_writer>>
  /\ UNCHANGED envVars /\ UNCHANGED ingVars /\ UNCHANGED histVars
  /\ UNCHANGED auxVars

\* send_logs: let name = output.read().await.name()
SendReadName ==
  /\ send_pc = "name"
  /\ key' = CurrentName(name, today, part)
  /\ flushes' = Append(flushes, [payload |-> payload, key |-> key',
                                 part |-> part, day |-> today,
                                 result |-> "pending", total |-> 0])
  /\ send_pc' = "head"
  /\ drain_input' = <<>>
  /\ drain_clean' = FALSE
  /\ UNCHANGED <<cron_pc, cron_len, cron_size, decision, payload, head_result, offset,
                 total_size, s3>>
  /\ UNCHANGED <<buffer, size_in_bytes, part, name, outer_readers, inner_writer>>
  /\ UNCHANGED envVars /\ UNCHANGED ingVars
  /\ UNCHANGED <<appended, since_clear>>
  /\ UNCHANGED auxVars

\* append_to_file: get_file_size(..).await.unwrap_or(0); head_object fails
\* with "notfound" for an absent key and may fail for any other reason
AppendHead ==
  /\ send_pc = "head"
  /\ \E r \in (IF key \in DOMAIN s3 THEN {"ok"} ELSE {"notfound"}) \cup {"error"} :
       /\ head_result' = r
       /\ offset' = ProbeOffset(r, ObjectSize(key))
  /\ send_pc' = "put"
  /\ UNCHANGED <<cron_pc, cron_len, cron_size, decision, payload, key, total_size, s3,
                 flushes>>
  /\ UNCHANGED <<buffer, size_in_bytes, part, name, outer_readers, inner_writer>>
  /\ UNCHANGED envVars /\ UNCHANGED ingVars /\ UNCHANGED histVars
  /\ UNCHANGED auxVars

\* send_logs returns: its locals are gone
SendLogsReturns ==
  /\ payload' = <<>>
  /\ key' = NoKey
  /\ head_result' = "none"
  /\ offset' = 0
  /\ total_size' = 0

\* the history entry of the running send_logs gets the outcome of its write
SetLast(h, res, tot) ==
  [h EXCEPT ![Len(h)] = [@ EXCEPT !.result = res, !.total = tot]]

\* append_to_file: put_object with write_offset_bytes = offset.  The store
\* accepts the write only at the end of the object (offset 0 creates it);
\* any write may fail.  `?` returns the failure from send_logs.
AppendPut ==
  /\ send_pc = "put"
  /\ LET total_len == TotalLen(offset, payload)
         old == IF key \in DOMAIN s3 THEN s3[key] ELSE <<>>
     IN  \/ /\ offset = ObjectSize(key)
            /\ s3' = (key :> (old \o payload)) @@ s3
            /\ total_size' = total_len
            /\ flushes' = SetLast(flushes, "ok", total_len)
            /\ send_pc' = "check"
            /\ cron_pc' = cron_pc
            /\ UNCHANGED <<payload, key, head_result, offset>>
         \/ /\ s3' = s3
            /\ flushes' = SetLast(flushes, "err", 0)
            /\ send_pc' = "idle"
            /\ cron_pc' = AfterSendLogs("err")
            /\ SendLogsReturns
  /\ UNCHANGED <<cron_len, cron_size, decision>>
  /\ UNCHANGED <<buffer, size_in_bytes, part, name, outer_readers, inner_writer>>
  /\ UNCHANGED envVars /\ UNCHANGED ingVars /\ UNCHANGED histVars
  /\ UNCHANGED auxVars

\* send_logs: if total_size > config.buffer_size_limit_kb * 1_024
SendCheck ==
  /\ send_pc = "check"
  /\ IF NeedsRollover(total_size, config)
     THEN send_pc' = "bump" /\ cron_pc' = cron_pc
     ELSE send_pc' = "idle" /\ cron_pc' = AfterSendLogs("ok")
  /\ SendLogsReturns
  /\ UNCHANGED <<cron_len, cron_size, decision, s3, flushes>>
  /\ UNCHANGED <<buffer, size_in_bytes, part, name, outer_readers, inner_writer>>
  /\ UNCHANGED envVars /\ UNCHANGED ingVars /\ UNCHANGED histVars
  /\ UNCHANGED auxVars

\* a send_logs that still holds a read guard of its own when it asks for
\* the write guard
OuterReadGuardsWithOwn == outer_readers \cup {"cron"}

\* send_logs: the read guards of lines 224 and 225 are temporaries dropped
\* at the end of their statements, so the read guards that output.write()
\* waits for are those of the other tasks
OuterReadGuards == outer_readers

\* send_logs: output.write().await.bump_part()
BumpPart ==
  /\ send_pc = "bump"
  /\ OuterReadGuards = {}
  /\ part' = NextPart(part)
  /\ name' = GenName(today, part')
  /\ send_pc' = "idle"
  /\ cron_pc' = AfterSendLogs("ok")
  /\ UNCHANGED <<cron_len, cron_size, decision, payload, key, head_result,
                 offset, total_size, s3, flushes>>
  /\ UNCHANGED <<buffer, size_in_bytes, outer_readers, inner_writer>>
  /\ UNCHANGED envVars /\ UNCHANGED ingVars /\ UNCHANGED histVars
  /\ UNCHANGED auxVars

\* ------------------------------------------------------- specification
Next ==
  \/ Produce
  \/ Midnight
  \/ IngestRecv
  \/ IngestLock
  \/ IngestFetchAdd
  \/ IngestPush
  \/ IngestStore
  \/ CronWake
  \/ CronReadLen
  \/ CronReadSize
  \/ CronDecide
  \/ FlushJoin
  \/ FlushClear
  \/ FlushReset
  \/ SendReadName
  \/ AppendHead
  \/ AppendPut
  \/ SendCheck
  \/ BumpPart

Spec == Init /\ [][Next]_vars

TypeOK ==
  /\ ing_pc \in {"recv", "lock", "fetch_add", "push", "store"}
  /\ cron_pc \in {"sleep", "len", "size", "decide", "await"}
  /\ send_pc \in {"idle", "join", "clear", "reset", "name", "head", "put",
                  "check", "bump"}
  /\ part \in 0..MaxRecords
  /\ today \in Days
  /\ size_in_bytes \in Nat

\* ------------------------------------------------------------- claims

\* the serialized records of a queue, summed over their byte lengths
RECURSIVE QueueBytes(_)
QueueBytes(q) == IF q = <<>> THEN 0 ELSE SerLen(Head(q)) + QueueBytes(Tail(q))

\* p is q's elements in order with one NL between neighbours
IsNewlineJoin(p, q) ==
  IF q = <<>> THEN p = <<>>
  ELSE /\ Len(p) = 2 * Len(q) - 1
       /\ \A i \in 1..Len(q) : p[2 * i - 1] = q[i]
       /\ \A i \in 1..(Len(q) - 1) : p[2 * i] = NL

\* the records of token string s are in the order they were sent on the
\* channel: Produce numbers the values in send order
InSendOrder(s) ==
  \A i, j \in DOMAIN s : (i < j /\ s[i] # NL /\ s[j] # NL) => s[i] < s[j]

\* no flush_buffer has started yet
NoDrainYet == flushes = <<>> /\ send_pc \in {"idle", "join"}

\* object_size_limit_mb in bytes
ObjectLimitBytes == config.object_size_limit_mb * KB * KB

\* C1: when the first flush_buffer has returned, every record appended so
\* far is in exactly one of the returned payload and the queue.
C1_DrainLosesNothing ==
  (send_pc = "name" /\ flushes = <<>>) =>
    \A r \in appended : (r \in RecordsOf(payload)) # (r \in RecordsOf(buffer))

\* C2: after a successful flush that reported a total above the per-object
\* limit (object_size_limit_mb in bytes) the next flush targets the next part;
\* after one that reported at most the limit it targets the same key.
C2_RolloverAtObjectLimit ==
  \A i \in DOMAIN flushes :
    (i < Len(flushes) /\ flushes[i].result = "ok") =>
      IF flushes[i].total > ObjectLimitBytes
      THEN flushes[i + 1].key.part = flushes[i].key.part + 1
      ELSE flushes[i + 1].key = flushes[i].key

\* C3: with no drain so far and no append in progress, size_in_bytes is the
\* sum of the byte lengths of the queued records.
C3_SizeIsQueueBytes ==
  (NoDrainYet /\ ing_pc \in {"recv", "lock", "fetch_add"}) =>
    size_in_bytes = QueueBytes(buffer)

\* C4: a write is issued only after a probe that answered with a size or
\* with "object does not exist"; a probe that failed otherwise ends
\* append_to_file with an error before any write.
C4_ProbeErrorSurfaces ==
  ~(send_pc \in {"put", "check"} /\ head_result = "error")

\* C5: when the day changed between two flushes of the same part, the later
\* flush targets the key of the new day with the same nonce and part.
C5_KeyCarriesCurrentDay ==
  \A i \in DOMAIN flushes :
    (i < Len(flushes) /\ flushes[i + 1].part = flushes[i].part
       /\ flushes[i + 1].day # flushes[i].day) =>
      /\ flushes[i + 1].key.day = flushes[i + 1].day
      /\ flushes[i + 1].key.nonce = flushes[i].key.nonce
      /\ flushes[i + 1].key.part = flushes[i].key.part

\* C6: the records of a flush whose remote append failed are in the queue
\* no more and in no later flush payload, and the failed send_logs left the
\* part index and the name as they were, so the next flush targets the same key.
C6_FailedFlushNotRebuffered ==
  \A i \in DOMAIN flushes :
    flushes[i].result = "err" =>
      /\ RecordsOf(flushes[i].payload) \cap RecordsOf(buffer) = {}
      /\ \A j \in DOMAIN flushes :
           j > i => RecordsOf(flushes[j].payload) \cap RecordsOf(flushes[i].payload) = {}
      /\ IF i = Len(flushes)
         THEN name = flushes[i].key /\ part = flushes[i].part
         ELSE flushes[i + 1].key = flushes[i].key /\ flushes[i + 1].part = flushes[i].part

\* a flush of a non-empty payload failed and a later flush carried records
C6_Witness ==
  \E i \in DOMAIN flushes :
    /\ flushes[i].result = "err"
    /\ RecordsOf(flushes[i].payload) # {}
    /\ i < Len(flushes)
    /\ RecordsOf(flushes[i + 1].payload) # {}

\* C7: when flush_buffer has returned and no append step ran since its join,
\* the payload is the queued records in append order joined with newlines,
\* and the queue length and size_in_bytes are 0.
C7_DrainReturnsJoin ==
  (send_pc = "name" /\ drain_clean) =>
    /\ IsNewlineJoin(payload, drain_input)
    /\ Len(buffer) = 0
    /\ size_in_bytes = 0

\* a drain of two records has returned with no append step since its join
C7_Witness == send_pc = "name" /\ drain_clean /\ Len(drain_input) >= 2

\* C8: the records of the queue, and of every flush payload, are in the
\* order in which they were sent on the event channel.
C8_AppendedInSendOrder ==
  /\ InSendOrder(buffer)
  /\ InSendOrder(payload)
  /\ \A i \in DOMAIN flushes : InSendOrder(flushes[i].payload)

\* a flush payload holds two records
C8_Witness ==
  \E i \in DOMAIN flushes : Cardinality(RecordsOf(flushes[i].payload)) >= 2

\* C9: cron_job reads the length and the size after it woke up, and starts
\* send_logs exactly when length > 0 or size * 1024 >= buffer_size_limit_kb;
\* otherwise it goes back to sleep without a remote call.
C9_FlushIffDue ==
  [][/\ (cron_pc = "len" /\ cron_pc' = "size") => cron_len' = Len(buffer)
     /\ (cron_pc = "size" /\ cron_pc' = "decide") => cron_size' = size_in_bytes
     /\ (cron_pc = "decide" /\ cron_pc' # "decide") =>
          IF cron_len > 0 \/ cron_size * KB >= config.buffer_size_limit_kb
          THEN send_pc' = "join"
          ELSE cron_pc' = "sleep" /\ send_pc' = "idle" /\ s3' = s3
               /\ flushes' = flushes]_vars

\* after a drain, a wake-up read length 0 and size 0 and went back to sleep
C9_Witness ==
  /\ decision = "skip"
  /\ cron_pc = "sleep"
  /\ buffer = <<>>
  /\ size_in_bytes = 0
  /\ flushes # <<>>

\* C10: bump_part adds 1 to the part index, sets name to the key of the new
\* part and leaves the queue and size_in_bytes as they were.
C10_BumpPartFrame ==
  [][(send_pc = "bump" /\ send_pc' # "bump") =>
       /\ part' = part + 1
       /\ name' = [day |-> today, part |-> part + 1, prefix |-> Prefix,
                   nonce |-> Nonce, postfix |-> Postfix]
       /\ buffer' = buffer
       /\ size_in_bytes' = size_in_bytes]_vars

\* a rollover has run while a record was queued
C10_Witness ==
  cron_pc = "sleep" /\ part = 1 /\ name.part = 1 /\ buffer # <<>>

\* C11: whenever a flush reads the name, the part encoded in name is the
\* current part index and the prefix, nonce and postfix are the values of
\* construction; so every key a flush has used carries the part index
\* that was current when the flush read it.
C11_NameMatchesPart ==
  /\ (send_pc = "name") =>
       /\ name.part = part
       /\ name.prefix = Prefix /\ name.nonce = Nonce /\ name.postfix = Postfix
  /\ \A i \in DOMAIN flushes :
       /\ flushes[i].key.part = flushes[i].part
       /\ flushes[i].key.prefix = Prefix
       /\ flushes[i].key.nonce = Nonce
       /\ flushes[i].key.postfix = Postfix

\* a flush reads the name after a rollover
C11_Witness == send_pc = "name" /\ part = 1

\* the payloads of the successful ones among the first n flushes to key k,
\* one after the other
RECURSIVE AppendedTo(_, _)
AppendedTo(k, n) ==
  IF n = 0 THEN <<>>
  ELSE AppendedTo(k, n - 1)
         \o (IF flushes[n].key = k /\ flushes[n].result = "ok"
             THEN flushes[n].payload ELSE <<>>)

\* C12: every key starts absent; after any sequence of successful appends
\* to one key the remote object is the concatenation of their payloads, and
\* each successful call returned the byte length of the concatenation up to
\* and including its own payload, which was the object's size at that time.
C12_AppendConcatenates ==
  /\ \A k \in DOMAIN s3 : s3[k] = AppendedTo(k, Len(flushes))
  /\ \A i \in DOMAIN flushes :
       flushes[i].result = "ok" =>
         /\ flushes[i].key \in DOMAIN s3
         /\ flushes[i].total = ByteLen(AppendedTo(flushes[i].key, i))

\* two non-empty payloads have been appended to one key
C12_Witness ==
  \E i, j \in DOMAIN flushes :
    /\ i < j
    /\ flushes[i].key = flushes[j].key
    /\ flushes[i].result = "ok" /\ flushes[j].result = "ok"
    /\ flushes[i].payload # <<>> /\ flushes[j].payload # <<>>

\* C13: after a probe that answered "object does not exist" append_to_file
\* goes on with offset 0; its write creates the object with the payload as
\* content, and the total it returns is the byte length of the payload.
C13_NotFoundIsSizeZero ==
  /\ (send_pc \in {"put", "check"} /\ head_result = "notfound") => offset = 0
  /\ (send_pc = "check" /\ head_result = "notfound") =>
       /\ key \in DOMAIN s3
       /\ s3[key] = payload
       /\ total_size = ByteLen(payload)
       /\ flushes[Len(flushes)].result = "ok"
       /\ flushes[Len(flushes)].total = ByteLen(payload)

\* a non-empty payload has been written to a key the probe did not find
C13_Witness ==
  send_pc = "check" /\ head_result = "notfound" /\ payload # <<>>

\* C14: when send_logs returns an error the cron job goes back to its
\* sleep with no further remote call and no new flush on that tick; the
\* cron job is at one of the positions of its loop ever after, and a tick
\* that found the queue non-empty starts a flush whatever the outcome of
\* the flush before it.
C14_FailedFlushNotRetried ==
  [][/\ (send_pc = "put" /\ send_pc' = "idle") =>
          /\ cron_pc' = "sleep"
          /\ s3' = s3
          /\ Len(flushes') = Len(flushes)
          /\ flushes'[Len(flushes')].result = "err"
     /\ cron_pc' \in {"sleep", "len", "size", "decide", "await"}
     /\ (cron_pc = "decide" /\ cron_len > 0 /\ cron_pc' # "decide") =>
          cron_pc' = "await" /\ send_pc' = "join"]_vars

\* a tick after a failed flush has flushed a non-empty payload
C14_Witness ==
  \E i \in DOMAIN flushes :
    /\ i < Len(flushes)
    /\ flushes[i].result = "err"
    /\ flushes[i + 1].payload # <<>>
    /\ flushes[i + 1].result = "ok"

\* the ids of the values waiting in the channel
InChannel == {chan[i].id : i \in DOMAIN chan}

\* the id of the record the ingestion task is appending
InAppend == IF ing_pc \in {"lock", "fetch_add", "push"} THEN {ing_cur} ELSE {}

\* C15: a value whose serialization fails is never appended, and the step
\* that drops it leaves the queue, the size and the appended records as
\* they were and leaves the ingestion task at its receive; every
\* serializable value sent is waiting in the channel, being appended, or
\* appended, whatever was dropped before it.
C15_UnserializableDropped ==
  /\ [](/\ appended \subseteq sent_ok
        /\ sent_ok \subseteq (InChannel \cup InAppend \cup appended))
  /\ [][(ing_pc = "recv" /\ chan # <<>> /\ ~Head(chan).ok
       /\ Len(chan') < Len(chan)) =>
          /\ chan' = Tail(chan)
          /\ buffer' = buffer
          /\ size_in_bytes' = size_in_bytes
          /\ appended' = appended
          /\ ing_pc' = "recv"]_vars

\* a serializable record has been appended after an earlier value was dropped
C15_Witness ==
  \E i \in appended : \E j \in 1..(i - 1) : j \notin sent_ok /\ j \notin InChannel

\* C16: once a successful append to a key has reported a total above the
\* per-object size limit, no later flush appends to that key.
C16_NoAppendPastObjectLimit ==
  \A i, j \in DOMAIN flushes :
    (/\ i < j
     /\ flushes[i].result = "ok"
     /\ flushes[i].total > ObjectLimitBytes
     /\ flushes[j].result = "ok") =>
      flushes[j].key # flushes[i].key

\* ---------------------------------------------- flush_buffer called directly
MaxDrains == 3           \* calls of flush_buffer in one run

\* a caller that holds the Output calls output.read().await.flush_buffer()
DrainCall ==
  /\ send_pc = "idle"
  /\ Len(flushes) < MaxDrains
  /\ send_pc' = "join"
  /\ UNCHANGED <<cron_pc, cron_len, cron_size, decision, payload, key,
                 head_result, offset, total_size, s3, flushes>>
  /\ UNCHANGED <<buffer, size_in_bytes, part, name, outer_readers, inner_writer>>
  /\ UNCHANGED envVars /\ UNCHANGED ingVars /\ UNCHANGED histVars
  /\ UNCHANGED auxVars

\* flush_buffer has returned its payload to that caller
DrainReturn ==
  /\ send_pc = "name"
  /\ flushes' = Append(flushes, [payload |-> payload, key |-> NoKey,
                                 part |-> part, day |-> today,
                                 result |-> "none", total |-> 0])
  /\ payload' = <<>>
  /\ send_pc' = "idle"
  /\ drain_input' = <<>>
  /\ drain_clean' = FALSE
  /\ UNCHANGED <<cron_pc, cron_len, cron_size, decision, key, head_result,
                 offset, total_size, s3>>
  /\ UNCHANGED <<buffer, size_in_bytes, part, name, outer_readers, inner_writer>>
  /\ UNCHANGED envVars /\ UNCHANGED ingVars
  /\ UNCHANGED <<appended, since_clear>>
  /\ UNCHANGED auxVars

NextDrain ==
  \/ Produce
  \/ IngestRecv
  \/ IngestLock
  \/ IngestFetchAdd
  \/ IngestPush
  \/ IngestStore
  \/ DrainCall
  \/ FlushJoin
  \/ FlushClear
  \/ FlushReset
  \/ DrainReturn

SpecDrain == Init /\ [][NextDrain]_vars

\* C17: a flush_buffer that follows another flush_buffer with no record
\* pushed since the clear of the one before it, and with no step of an
\* append while it runs, returns the empty payload and leaves length 0 and
\* size 0.
C17_DrainIdempotent ==
  (send_pc = "name" /\ flushes # <<>> /\ drain_clean /\ drain_input = <<>>) =>
    /\ payload = <<>>
    /\ Len(buffer) = 0
    /\ size_in_bytes = 0

\* the second of two flush_buffer calls in a row has returned, the first
\* having drained a record
C17_Witness ==
  /\ send_pc = "name" /\ flushes # <<>> /\ drain_clean /\ drain_input = <<>>
  /\ flushes[Len(flushes)].payload # <<>>

\* ------------------------------------------- construction of the configuration
MaxSizeLimit == 50000

\* the numbers a caller may hand to the constructors
SizeInputs == {0, 1, 2, MaxSizeLimit - 1, MaxSizeLimit, MaxSizeLimit + 1}
IntervalInputs == {0, 1, 1000, MaxSizeLimit + 1}

\* anyhow::Result<Self>: Err(..) or Ok(Self(v)) with inner() = v
Err == [called |-> TRUE, ok |-> FALSE, inner |-> 0]
Ok(v) == [called |-> TRUE, ok |-> TRUE, inner |-> v]

\* a constructor that rejects the largest documented value
BufferSizeLimitKbNewStrict(size_limit) ==
  IF size_limit = 0 THEN Err
  ELSE IF size_limit >= MaxSizeLimit THEN Err
  ELSE Ok(size_limit)

\* BufferSizeLimitKb::new
BufferSizeLimitKbNew(size_limit) ==
  IF size_limit = 0 THEN Err
  ELSE IF size_limit > MaxSizeLimit THEN Err
  ELSE Ok(size_limit)

\* ObjectSizeLimitMb::new
ObjectSizeLimitMbNew(size_limit) ==
  IF size_limit = 0 THEN Err
  ELSE IF size_limit > MaxSizeLimit THEN Err
  ELSE Ok(size_limit)

\* CronIntervalInMs::new
CronIntervalInMsNew(interval) ==
  IF interval = 0 THEN Err ELSE Ok(interval)

\* no TracingS3Config yet
NoConfig == [buffer_size_limit_kb |-> 0, object_size_limit_mb |-> 0]

InitUnbuilt ==
  /\ config = NoConfig
  /\ InitLayer

layerVars == <<today, sent, chan, buffer, size_in_bytes, part, name,
               outer_readers, inner_writer, sent_ok>>

NewBufferSizeLimitKb ==
  /\ ~cfg_out.kb.called
  /\ \E v \in SizeInputs :
       /\ cfg_in' = [cfg_in EXCEPT !.kb = v]
       /\ cfg_out' = [cfg_out EXCEPT !.kb = BufferSizeLimitKbNew(v)]
  /\ UNCHANGED <<config, layerVars, cronVars, ingVars, histVars>>

NewObjectSizeLimitMb ==
  /\ ~cfg_out.mb.called
  /\ \E v \in SizeInputs :
       /\ cfg_in' = [cfg_in EXCEPT !.mb = v]
       /\ cfg_out' = [cfg_out EXCEPT !.mb = ObjectSizeLimitMbNew(v)]
  /\ UNCHANGED <<config, layerVars, cronVars, ingVars, histVars>>

NewCronIntervalInMs ==
  /\ ~cfg_out.ms.called
  /\ \E v \in IntervalInputs :
       /\ cfg_in' = [cfg_in EXCEPT !.ms = v]
       /\ cfg_out' = [cfg_out EXCEPT !.ms = CronIntervalInMsNew(v)]
  /\ UNCHANGED <<config, layerVars, cronVars, ingVars, histVars>>

\* TracingS3Config::new takes the three values by type: each is an Ok(..)
\* that was unwrapped; it stores their inner()
ConfigNew ==
  /\ ~cfg_out.built
  /\ cfg_out.kb.ok /\ cfg_out.mb.ok /\ cfg_out.ms.ok
  /\ config' = [buffer_size_limit_kb |-> cfg_out.kb.inner,
                object_size_limit_mb |-> cfg_out.mb.inner]
  /\ cfg_out' = [cfg_out EXCEPT !.built = TRUE]
  /\ UNCHANGED <<cfg_in, layerVars, cronVars, ingVars, histVars>>

\* HttpLogLayer::new(config): the ingestion task and the cron job are spawned
LayerNew ==
  /\ cfg_out.built
  /\ ~cfg_out.spawned
  /\ cfg_out' = [cfg_out EXCEPT !.spawned = TRUE]
  /\ UNCHANGED <<config, cfg_in, layerVars, cronVars, ingVars, histVars>>

NextConfig ==
  \/ NewBufferSizeLimitKb
  \/ NewObjectSizeLimitMb
  \/ NewCronIntervalInMs
  \/ ConfigNew
  \/ LayerNew

SpecConfig == InitUnbuilt /\ [][NextConfig]_vars


\* C18: BufferSizeLimitKb::new(v) and ObjectSizeLimitMb::new(v) return Ok
\* with inner() = v exactly when 1 <= v <= 50,000, CronIntervalInMs::new(v)
\* exactly when v >= 1, and an error otherwise; the tasks of a layer are
\* spawned only with a configuration that holds three accepted values.
C18_ConfigValidated ==
  /\ cfg_out.kb.called =>
       /\ cfg_out.kb.ok = (1 <= cfg_in.kb /\ cfg_in.kb <= 50000)
       /\ cfg_out.kb.ok => cfg_out.kb.inner = cfg_in.kb
  /\ cfg_out.mb.called =>
       /\ cfg_out.mb.ok = (1 <= cfg_in.mb /\ cfg_in.mb <= 50000)
       /\ cfg_out.mb.ok => cfg_out.mb.inner = cfg_in.mb
  /\ cfg_out.ms.called =>
       /\ cfg_out.ms.ok = (cfg_in.ms >= 1)
       /\ cfg_out.ms.ok => cfg_out.ms.inner = cfg_in.ms
  /\ cfg_out.spawned =>
       /\ cfg_out.built
       /\ config.buffer_size_limit_kb = cfg_in.kb
       /\ config.object_size_limit_mb = cfg_in.mb
       /\ cfg_in.kb \in 1..50000 /\ cfg_in.mb \in 1..50000 /\ cfg_in.ms >= 1
  /\ cfg_out.built => (cfg_out.kb.ok /\ cfg_out.mb.ok /\ cfg_out.ms.ok)

\* the largest size was accepted, the next larger one and a zero interval
\* were rejected
C18_Witness ==
  /\ cfg_out.kb.ok /\ cfg_in.kb = 50000
  /\ cfg_out.mb.called /\ ~cfg_out.mb.ok /\ cfg_in.mb = 50001
  /\ cfg_out.ms.called /\ ~cfg_out.ms.ok /\ cfg_in.ms = 0


\* C19: send_logs runs only while the cron job waits for it, so a tick
\* reads the length, reads the size and decides only when no send_logs is
\* in progress, and a send_logs starts only from the cron job's decision
\* with no other send_logs in progress.
C19_FlushesOneAtATime ==
  /\ [](/\ (cron_pc \in {"sleep", "len", "size", "decide"}) => send_pc = "idle"
        /\ (cron_pc = "await") => send_pc # "idle")
  /\ [][(send_pc' = "join" /\ send_pc # "join") =>
          send_pc = "idle" /\ cron_pc = "decide"]_vars

\* the cron job waits for the remote call of its second flush
C19_Witness ==
  cron_pc = "await" /\ send_pc = "put" /\ Len(flushes) = 2


\* C20: from the start of the drain to the end of the remote append of one
\* send_logs no step changes part or name, and the key handed to
\* append_to_file is that name: the name the buffer had when the payload
\* was drained.
C20_KeyIsNameAtDrain ==
  /\ []((send_pc \in {"head", "put"}) => key = name)
  /\ [][(send_pc \in {"join", "clear", "reset", "name", "head", "put"}) =>
          (name' = name /\ part' = part)]_vars

\* the remote append of a non-empty payload is pending after a rollover
C20_Witness ==
  send_pc = "put" /\ payload # <<>> /\ part = 1 /\ today = 2


\* ------------------------------------------------------- fair scheduling
\* the step the ingestion task is at
IngestStep ==
  \/ IngestRecv
  \/ IngestLock
  \/ IngestFetchAdd
  \/ IngestPush
  \/ IngestStore

\* the step the cron job is at: its timer, its reads, and the send_logs it
\* awaits with the remote calls of append_to_file
CronStep ==
  \/ CronWake
  \/ CronReadLen
  \/ CronReadSize
  \/ CronDecide
  \/ FlushJoin
  \/ FlushClear
  \/ FlushReset
  \/ SendReadName
  \/ AppendHead
  \/ AppendPut
  \/ SendCheck
  \/ BumpPart

\* the tokio runtime polls every spawned task that can go on, the timer
\* fires, and every remote call returns
SpecFair == Spec /\ WF_vars(IngestStep) /\ WF_vars(CronStep)

\* C21: a state with a non-empty queue leads to a state in which send_logs
\* has just cleared the queue.
C21_QueueEventuallyDrained ==
  (Len(buffer) > 0) ~> (send_pc = "reset")

\* send_logs has drained a queue that held a record
C21_Witness == send_pc = "reset" /\ payload # <<>> /\ flushes # <<>>


\* C22: while append_to_file is at its probe or at its write the cron job
\* holds neither the lock of the Output nor the lock of the Vec, and no
\* step of a producer or of the ingestion task waits for it: a producer
\* can send, and the ingestion task can take the step it is at; the cron
\* job itself waits for send_logs.
C22_NoLockDuringRemoteCall ==
  (send_pc \in {"head", "put"}) =>
    /\ inner_writer # "cron"
    /\ "cron" \notin outer_readers
    /\ cron_pc = "await"
    /\ (sent < MaxRecords) => ENABLED Produce
    /\ (ing_pc = "recv" /\ chan # <<>>) => ENABLED IngestRecv
    /\ (ing_pc = "lock") => ENABLED IngestLock
    /\ (ing_pc = "fetch_add") => ENABLED IngestFetchAdd
    /\ (ing_pc = "push") => ENABLED IngestPush
    /\ (ing_pc = "store") => ENABLED IngestStore

\* a record has been pushed after the clear of the flush whose remote write
\* is pending
C22_Witness ==
  send_pc = "put" /\ ing_pc = "store" /\ buffer # <<>> /\ payload # <<>>


\* the ingestion task is at the outer read lock or at the inner write lock
IngestAtLock == ing_pc \in {"lock", "push"}

\* the cron job is at the inner read lock of buffer_len or of the join, at
\* the inner write lock of the clear, or at the outer write lock of the
\* rollover
CronAtLock == cron_pc = "len" \/ send_pc \in {"join", "clear", "bump"}

\* C23: no task waits for a lock forever: neither the ingestion task nor
\* the cron job stays at the locks it takes; no two of these positions
\* follow each other in a cycle, so a task that is at its locks for ever
\* is at one lock for ever.
C23_NoLockWaitForever ==
  /\ []<>(~IngestAtLock)
  /\ []<>(~CronAtLock)

\* the rollover waits for the outer write lock while the ingestion task
\* holds the outer read lock and is about to take the inner write lock
C23_Witness ==
  send_pc = "bump" /\ "ingest" \in outer_readers /\ ing_pc = "push"


\* the payloads of the first n flushes, one after the other
RECURSIVE PayloadsUpTo(_)
PayloadsUpTo(n) ==
  IF n = 0 THEN <<>> ELSE PayloadsUpTo(n - 1) \o flushes[n].payload

\* all payloads drained so far in flush order, the one of a drain that has
\* not yet read the name included
AllPayloads ==
  PayloadsUpTo(Len(flushes))
    \o (IF send_pc \in {"clear", "reset", "name"} THEN payload ELSE <<>>)

\* C24: the records of all flush payloads, taken in flush order, are
\* pushed records in strictly increasing send order: no record is in two
\* payloads or twice in one, and none comes before a record sent earlier.
C24_PayloadsDisjointInOrder ==
  /\ \A i, j \in DOMAIN AllPayloads :
       (i < j /\ AllPayloads[i] # NL /\ AllPayloads[j] # NL) =>
         AllPayloads[i] < AllPayloads[j]
  /\ RecordsOf(AllPayloads) \subseteq (appended \cap sent_ok)

\* two flushes have each carried a record
C24_Witness ==
  \E i, j \in DOMAIN flushes :
    i < j /\ RecordsOf(flushes[i].payload) # {} /\ RecordsOf(flushes[j].payload) # {}


\* C25: the payload that append_to_file writes to the store is not empty.
C25_NoEmptyRemoteAppend ==
  (send_pc = "put") => payload # <<>>

====
